---------------------------- MODULE Spec2Model ----------------------------
(***************************************************************************)
(* A model of the three command-line utilities of the repository:          *)
(*   - csv_converter.py: UniversalCSVToJSONConverter.run, the interactive  *)
(*     CSV -> JSON pipeline (specification Spec);                          *)
(*   - find_unclosed_string.py: the quote scanner (specification SpecScan);*)
(*   - json_validator.py: validate_json_file (specification SpecJson).     *)
(* Every prompt of the converter is one action whose input is the line the *)
(* operator types; every other statement of run() that can be interrupted  *)
(* between is one action too.                                              *)
(***************************************************************************)
EXTENDS Integers, Sequences, FiniteSets, TLC

VARIABLES
    pc,           \* where run() stands (a prompt it waits at, or its next step)
    at,           \* the last pipeline position run() reached (history of pc)
    outcome,      \* how the run ended: "", "not found", "empty schema", ...
    typed,        \* the raw line the operator typed at the last prompt
    input_path,   \* self.input_path
    output_path,  \* self.output_path
    csv_headers,  \* self.csv_headers
    db_schema,    \* self.db_schema, an insertion-ordered dict: <<[key, csv_column, data_type]>>
    hidx,         \* index of `header` in the for loop of create_key_mapping
    custom_key,   \* the local custom_key of create_key_mapping
    rows,         \* the data lines of the input file, as convert_data's reader parsed them
    data,         \* the record list convert_data returned
    exc,          \* the exception that reached run()'s handler ("" when none)
    fs,           \* the filesystem at the candidate destination paths
    fs0,          \* fs when the run began (history)
    \* find_unclosed_string
    text,               \* the characters of the scanned file
    scan_pc,            \* "idle", "scan", "eof", "returned"
    line_num,           \* line_num of the outer loop
    col_num,            \* col_num of the inner loop
    in_string,
    escape_next,
    string_start_line,
    string_start_col,
    scan_result,        \* what find_unclosed_string returned (0 is None)
    \* validate_json_file
    file_kind,          \* what is at filepath
    n_lines,            \* the number of lines of the file
    lineno,             \* e.lineno of the JSONDecodeError
    json_pc,            \* "idle", "start", "open", "load", "snippet", "returned", "raised"
    snippet_i,          \* i of the snippet loop
    json_result         \* "True", "False", or the exception the call raised

runVars == <<pc, at, outcome, typed, input_path, output_path, csv_headers,
             db_schema, hidx, custom_key, rows, data, exc, fs, fs0>>

scanVars == <<text, scan_pc, line_num, col_num, in_string, escape_next,
              string_start_line, string_start_col, scan_result>>

jsonVars == <<file_kind, n_lines, lineno, json_pc, snippet_i, json_result>>

vars == <<runVars, scanVars, jsonVars>>

-----------------------------------------------------------------------------
(* Bounds of the model *)

MaxRows == 2       \* data lines of an input file
MaxLen == 5        \* characters of a scanned file
MaxJsonLines == 4  \* lines of a validated file

-----------------------------------------------------------------------------
(* Strings, and Python's None *)

None == "<None>"

\* str.strip() on the strings of the model.
Strip(s) ==
    CASE s = " -3.7 " -> "-3.7"
      [] OTHER        -> s

\* str.lower() on the strings of the model.
Lower(s) ==
    CASE s = "Float" -> "float"
      [] s = "Yes"   -> "yes"
      [] OTHER       -> s

\* Python truthiness of an optional string: None and "" are falsy.
Truthy(s) == s # None /\ s # ""

\* get_user_input: the stripped line, or the default when it is empty.
GetUserInput(raw, default) ==
    IF Strip(raw) # "" THEN Strip(raw) ELSE default

\* Path(p).with_suffix('.json')
WithSuffixJson(p) ==
    CASE p = "data.csv" -> "data.json"
      [] OTHER          -> p


-----------------------------------------------------------------------------
(* The input file *)

\* The column names of the input file; its header line holds the first n of
\* them (none when the line is blank).
ColumnNames == <<"a", "b">>
HeaderRows == {SubSeq(ColumnNames, 1, n) : n \in 0..Len(ColumnNames)}

\* The raw text of a cell.
Cells == {"", " -3.7 ", "inf", "Yes"}

\* The cells of the files the whole pipeline is run on.
RunCells == {"inf", "nan"}

\* All sequences over S of length at most n.
SeqUpTo(S, n) == UNION {[1..k -> S] : k \in 0..n}

\* The files of at most MaxRows data lines after the header, with cells from
\* C. A data line is what csv.reader parses it to: <<>> is a blank line, a
\* line shorter than the header misses columns.
FilesOver(C) == SeqUpTo(SeqUpTo(C, Len(ColumnNames)), MaxRows)

-----------------------------------------------------------------------------
(* convert_value *)

DataTypes == {"string", "integer", "float", "boolean"}

\* A JSON value: null, or a string, an integer, a float or a boolean.
\* A float is its value in tenths (n), or the special s = "inf" / "nan".
Null      == [t |-> "null",  s |-> "",  n |-> 0, b |-> FALSE]
Str(x)    == [t |-> "str",   s |-> x,   n |-> 0, b |-> FALSE]
Int_(x)   == [t |-> "int",   s |-> "",  n |-> x, b |-> FALSE]
Float(x)  == [t |-> "float", s |-> "",  n |-> x, b |-> FALSE]
FloatInf  == [t |-> "float", s |-> "inf", n |-> 0, b |-> FALSE]
FloatNaN  == [t |-> "float", s |-> "nan", n |-> 0, b |-> FALSE]
Bool(x)   == [t |-> "bool",  s |-> "",  n |-> 0, b |-> x]

\* What a call does: return a value, or raise.
Return(v) == [raised |-> "", val |-> v, warned |-> FALSE]
Warn      == [raised |-> "", val |-> Null, warned |-> TRUE]
Raise(e)  == [raised |-> e, val |-> Null, warned |-> FALSE]

\* float(s) on the stripped strings of the model.
ParseFloat(s) ==
    CASE s = "-3.7"  -> Return(Float(-37))
      [] s = "inf"   -> Return(FloatInf)
      [] s = "nan"   -> Return(FloatNaN)
      [] OTHER       -> Raise("ValueError")

\* int(f): truncation toward zero; OverflowError on an infinity, ValueError
\* on a NaN.
IntOfFloat(f) ==
    CASE f.s = "inf" -> Raise("OverflowError")
      [] f.s = "nan" -> Raise("ValueError")
      [] OTHER       -> Return(Int_(IF f.n >= 0 THEN f.n \div 10
                                               ELSE -((-f.n) \div 10)))

BooleanTrue == {"true", "1", "yes", "on", "t", "y"}

\* The try body of convert_value on the stripped value.
Coerce(v, data_type) ==
    CASE data_type = "string"  -> Return(Str(v))
      [] data_type = "integer" ->
            IF ParseFloat(v).raised # "" THEN ParseFloat(v)
            ELSE IntOfFloat(ParseFloat(v).val)
      [] data_type = "float"   -> ParseFloat(v)
      [] data_type = "boolean" -> Return(Bool(Lower(v) \in BooleanTrue))
      [] OTHER                 -> Return(Null)

\* except (ValueError, TypeError): print a warning, return None.
Caught == {"ValueError", "TypeError"}

\* convert_value coercing before it looks for an empty value.
ConvertValue_CoercesEmpty(value, data_type) ==
    IF data_type = "boolean"
    THEN Return(Bool(Truthy(value) /\ Lower(Strip(value)) \in BooleanTrue))
    ELSE IF ~Truthy(value) \/ Strip(value) = "" THEN Return(Null)
    ELSE LET r == Coerce(Strip(value), data_type)
         IN  IF r.raised \in Caught THEN Warn ELSE r

ConvertValue(value, data_type) ==
    IF ~Truthy(value) \/ Strip(value) = "" THEN Return(Null)
    ELSE LET r == Coerce(Strip(value), data_type)
         IN  IF r.raised \in Caught THEN Warn ELSE r

-----------------------------------------------------------------------------
(* db_schema, an insertion-ordered dict *)

SchemaKeys(schema) == [i \in 1..Len(schema) |-> schema[i].key]

\* create_key_mapping without its `elif custom_key in self.db_schema`.
KeyAlreadyUsed_Never(key, schema) == FALSE

\* custom_key in self.db_schema
KeyAlreadyUsed(key, schema) == \E i \in 1..Len(schema) : schema[i].key = key

\* self.db_schema[key] = {...}: an existing key keeps its place and takes the
\* new value, a new key is appended.
DictSet(schema, key, header, data_type) ==
    LET e == [key |-> key, csv_column |-> header, data_type |-> data_type]
    IN  IF \E i \in 1..Len(schema) : schema[i].key = key
        THEN [i \in 1..Len(schema) |->
                 IF schema[i].key = key THEN e ELSE schema[i]]
        ELSE Append(schema, e)

-----------------------------------------------------------------------------
(* convert_data *)

\* A reader that yields a row for a blank line too.
DictReaderRows_KeepsBlank(lines) == lines

\* csv.DictReader skips the lines that parse to no cell at all.
DictReaderRows(lines) == SelectSeq(lines, LAMBDA l : l # <<>>)

\* row.get(csv_column, ''): DictReader gives None to a header the line is too
\* short for; '' stands for a column that is no header.
RowGet(line, headers, csv_column) ==
    IF \E i \in 1..Len(headers) : headers[i] = csv_column
    THEN LET i == CHOOSE j \in 1..Len(headers) : headers[j] = csv_column
         IN  IF i <= Len(line) THEN line[i] ELSE None
    ELSE ""

\* mapped_row: one <<key, call result>> per schema entry, in schema order.
MapRow(line, headers, schema) ==
    [k \in 1..Len(schema) |->
        [key |-> schema[k].key,
         res |-> ConvertValue(RowGet(line, headers, schema[k].csv_column),
                              schema[k].data_type)]]

\* The records of convert_data, or the exception a cell raised.
ConvertData(lines, headers, schema) ==
    LET read   == DictReaderRows(lines)
        mapped == [i \in 1..Len(read) |-> MapRow(read[i], headers, schema)]
        bad    == {i \in 1..Len(read) :
                      \E k \in 1..Len(schema) : mapped[i][k].res.raised # ""}
    IN  IF bad # {}
        THEN LET i == CHOOSE j \in bad : \A m \in bad : j <= m
                 k == CHOOSE j \in 1..Len(schema) :
                         /\ mapped[i][j].res.raised # ""
                         /\ \A m \in 1..j-1 : mapped[i][m].res.raised = ""
             IN  [raised |-> mapped[i][k].res.raised, data |-> <<>>]
        ELSE [raised |-> "",
              data |-> [i \in 1..Len(read) |->
                          [k \in 1..Len(schema) |->
                              [key |-> mapped[i][k].key,
                               val |-> mapped[i][k].res.val]]]]

-----------------------------------------------------------------------------
(* save_json *)

Absent    == [exists |-> FALSE, state |-> "absent", text |-> <<>>]
OldFile   == [exists |-> TRUE,  state |-> "old",    text |-> <<>>]
\* open(path, 'w'): the file exists and is empty.
Truncated == [exists |-> TRUE,  state |-> "open",   text |-> <<>>]
\* json.dump(data, f) written to the end and the file closed.
JsonDump(records) == [exists |-> TRUE, state |-> "json", text |-> records]

DestPaths == {"data.json", "out.json"}

-----------------------------------------------------------------------------
(* What the operator types *)

PathInputs   == {""}
OutputInputs == {"", "out.json"}
KeyInputs    == {"", "k1", "k2"}
TypeInputs   == {"", "integer", "Float", "boolean", "text"}
YesNoInputs  == {"", "n"}

\* answer.lower() == 'y' on what get_user_input returned with default "y"/"n".
Accepts(raw, default) == Lower(GetUserInput(raw, default)) = "y"

-----------------------------------------------------------------------------
(* run() *)

Prompts  == {"CollectPaths", "RetryPath", "OutputPath", "KeyPrompt",
             "TypePrompt", "TypeRetry", "ConfirmConversion", "Preview",
             "OpenFile", "Error"}
Steps    == {"ReadHeaders", "BuildMapping", "Summarize", "Convert", "Write",
             "Writing"}
Terminal == {"Done", "Cancelled", "Failed"}

RunInit ==
    /\ pc = "CollectPaths"
    /\ at = "CollectPaths"
    /\ outcome = ""
    /\ typed = ""
    /\ input_path = ""
    /\ output_path = ""
    /\ csv_headers = <<>>
    /\ db_schema = <<>>
    /\ hidx = 0
    /\ custom_key = None
    /\ rows = <<>>
    /\ data = <<>>
    /\ exc = ""
    /\ fs \in [DestPaths -> {Absent, OldFile}]
    /\ fs0 = fs

\* run() moves on to position p.
Goto(p) == pc' = p /\ at' = p /\ outcome' = outcome /\ exc' = exc

\* run() returns (or the process exits) with outcome o.
Finish(p, o) == pc' = p /\ at' = at /\ outcome' = o /\ exc' = exc

\* An exception e reaches `except Exception` of run(), which prompts.
Except(e) == pc' = "Error" /\ at' = at /\ outcome' = outcome /\ exc' = e

\* get_file_paths: the input path prompt; os.path.exists answers ex.
GetInputPath ==
    /\ pc = "CollectPaths"
    /\ UNCHANGED <<scanVars, jsonVars>>
    /\ \E raw \in PathInputs, ex \in BOOLEAN :
          /\ typed' = raw
          /\ input_path' = GetUserInput(raw, "data.csv")
          /\ IF ex THEN Goto("OutputPath") ELSE Goto("RetryPath")
    /\ UNCHANGED <<output_path, csv_headers, db_schema, hidx, custom_key,
                   rows, data, fs, fs0>>

\* get_file_paths: "Try again? (y/n)".
RetryInputPath ==
    /\ pc = "RetryPath"
    /\ UNCHANGED <<scanVars, jsonVars>>
    /\ \E raw \in YesNoInputs :
          /\ typed' = raw
          /\ IF Accepts(raw, "y") THEN Goto("CollectPaths")
             ELSE Finish("Cancelled", "not found")
    /\ UNCHANGED <<input_path, output_path, csv_headers, db_schema, hidx,
                   custom_key, rows, data, fs, fs0>>

\* get_file_paths: the output path prompt.
GetOutputPath ==
    /\ pc = "OutputPath"
    /\ UNCHANGED <<scanVars, jsonVars>>
    /\ \E raw \in OutputInputs :
          /\ typed' = raw
          /\ output_path' = GetUserInput(raw, WithSuffixJson(input_path))
    /\ Goto("ReadHeaders")
    /\ UNCHANGED <<input_path, csv_headers, db_schema, hidx, custom_key,
                   rows, data, fs, fs0>>

\* read_csv_headers: the first line of the file.
ReadCsvHeaders ==
    /\ pc = "ReadHeaders"
    /\ UNCHANGED <<scanVars, jsonVars>>
    /\ \E h \in HeaderRows : csv_headers' = h
    /\ Goto("BuildMapping")
    /\ UNCHANGED <<typed, input_path, output_path, db_schema, hidx,
                   custom_key, rows, data, fs, fs0>>

\* read_csv_headers raises: the file is gone or unreadable (OSError), is not
\* UTF-8 (UnicodeDecodeError) or is empty (StopIteration from next).
ReadErrors == {"OSError", "UnicodeDecodeError", "StopIteration"}

ReadCsvHeadersFails ==
    /\ pc = "ReadHeaders"
    /\ UNCHANGED <<scanVars, jsonVars>>
    /\ \E e \in ReadErrors : Except(e)
    /\ UNCHANGED <<typed, input_path, output_path, csv_headers, db_schema,
                   hidx, custom_key, rows, data, fs, fs0>>

\* run() after create_key_mapping returned: `if self.db_schema`.
AfterMapping(schema) ==
    IF schema # <<>> THEN Goto("Summarize")
    ELSE Finish("Cancelled", "empty schema")

\* The for loop of create_key_mapping goes to the header after hidx.
NextHeader(schema) ==
    IF hidx < Len(csv_headers)
    THEN hidx' = hidx + 1 /\ Goto("KeyPrompt")
    ELSE hidx' = hidx /\ AfterMapping(schema)

\* create_key_mapping up to its first prompt.
StartMapping ==
    /\ pc = "BuildMapping"
    /\ UNCHANGED <<scanVars, jsonVars>>
    /\ db_schema' = <<>>
    /\ IF Len(csv_headers) > 0
       THEN hidx' = 1 /\ Goto("KeyPrompt")
       ELSE hidx' = hidx /\ AfterMapping(<<>>)
    /\ UNCHANGED <<typed, input_path, output_path, csv_headers, custom_key,
                   rows, data, fs, fs0>>

\* create_key_mapping: the custom key prompt for csv_headers[hidx].
EnterKey ==
    /\ pc = "KeyPrompt"
    /\ UNCHANGED <<scanVars, jsonVars>>
    /\ \E raw \in KeyInputs :
          /\ typed' = raw
          /\ custom_key' = GetUserInput(raw, None)
          /\ IF ~Truthy(custom_key') THEN NextHeader(db_schema)
             ELSE IF KeyAlreadyUsed(custom_key', db_schema)
                  THEN hidx' = hidx /\ Goto("KeyPrompt")
                  ELSE hidx' = hidx /\ Goto("TypePrompt")
    /\ UNCHANGED <<input_path, output_path, csv_headers, db_schema, rows,
                   data, fs, fs0>>

\* One round of get_data_type on the line raw: the type it returns, None when
\* it returns None, "retry?" when it goes on to ask "Try again? (y/n)".
GetDataType(raw) ==
    LET data_type == GetUserInput(raw, "string")
    IN  IF ~Truthy(data_type) THEN None
        ELSE IF Lower(data_type) \in DataTypes THEN Lower(data_type)
        ELSE "retry?"

\* create_key_mapping with the data type (or None) get_data_type returned.
MapColumn(data_type) ==
    /\ db_schema' = IF data_type # None
                    THEN DictSet(db_schema, custom_key, csv_headers[hidx],
                                 data_type)
                    ELSE db_schema
    /\ NextHeader(db_schema')

\* get_data_type: the data type prompt for custom_key.
EnterType ==
    /\ pc = "TypePrompt"
    /\ UNCHANGED <<scanVars, jsonVars>>
    /\ \E raw \in TypeInputs :
          /\ typed' = raw
          /\ IF GetDataType(raw) = "retry?"
             THEN db_schema' = db_schema /\ hidx' = hidx /\ Goto("TypeRetry")
             ELSE MapColumn(GetDataType(raw))
    /\ UNCHANGED <<input_path, output_path, csv_headers, custom_key, rows,
                   data, fs, fs0>>

\* get_data_type: "Try again? (y/n)" after an invalid type.
RetryType ==
    /\ pc = "TypeRetry"
    /\ UNCHANGED <<scanVars, jsonVars>>
    /\ \E raw \in YesNoInputs :
          /\ typed' = raw
          /\ IF Accepts(raw, "y")
             THEN db_schema' = db_schema /\ hidx' = hidx /\ Goto("TypePrompt")
             ELSE MapColumn(None)
    /\ UNCHANGED <<input_path, output_path, csv_headers, custom_key, rows,
                   data, fs, fs0>>

\* show_summary.
ShowSummary ==
    /\ pc = "Summarize"
    /\ UNCHANGED <<scanVars, jsonVars>>
    /\ Goto("ConfirmConversion")
    /\ UNCHANGED <<typed, input_path, output_path, csv_headers, db_schema,
                   hidx, custom_key, rows, data, fs, fs0>>

\* run() going on whatever the answer.
Proceeds_Always(raw) == TRUE

\* run(): does the answer at "Proceed with conversion? (y/n)" go on?
Proceeds(raw) == Accepts(raw, "y")

ConfirmConversion ==
    /\ pc = "ConfirmConversion"
    /\ UNCHANGED <<scanVars, jsonVars>>
    /\ \E raw \in YesNoInputs :
          /\ typed' = raw
          /\ IF Proceeds(raw) THEN Goto("Convert")
             ELSE Finish("Cancelled", "declined")
    /\ UNCHANGED <<input_path, output_path, csv_headers, db_schema, hidx,
                   custom_key, rows, data, fs, fs0>>

\* convert_data on the data lines of the file, one of files.
ConvertFile(files) ==
    /\ pc = "Convert"
    /\ UNCHANGED <<scanVars, jsonVars>>
    /\ \E lines \in files :
          LET r == ConvertData(lines, csv_headers, db_schema)
          IN  /\ rows' = lines
              /\ IF r.raised # ""
                 THEN data' = data /\ Except(r.raised)
                 ELSE data' = r.data /\ Goto("Preview")
    /\ UNCHANGED <<typed, input_path, output_path, csv_headers, db_schema,
                   hidx, custom_key, fs, fs0>>

ConvertStep == ConvertFile(FilesOver(RunCells))

\* convert_data raises while it opens or decodes the file.
ConvertErrors == {"OSError", "UnicodeDecodeError"}

ConvertReadFails ==
    /\ pc = "Convert"
    /\ UNCHANGED <<scanVars, jsonVars>>
    /\ \E e \in ConvertErrors : Except(e)
    /\ UNCHANGED <<typed, input_path, output_path, csv_headers, db_schema,
                   hidx, custom_key, rows, data, fs, fs0>>

\* preview_data with the file saved before the operator is asked.
PreviewData_SavesFirst ==
    /\ pc = "Preview"
    /\ UNCHANGED <<scanVars, jsonVars>>
    /\ fs' = [fs EXCEPT ![output_path] = JsonDump(data)]
    /\ \E raw \in YesNoInputs :
          /\ typed' = raw
          /\ IF Accepts(raw, "y") THEN Goto("Write")
             ELSE Finish("Cancelled", "declined")
    /\ UNCHANGED <<input_path, output_path, csv_headers, db_schema, hidx,
                   custom_key, rows, data, fs0>>

\* preview_data: "Continue with conversion? (y/n)".
PreviewData ==
    /\ pc = "Preview"
    /\ UNCHANGED <<scanVars, jsonVars>>
    /\ \E raw \in YesNoInputs :
          /\ typed' = raw
          /\ IF Accepts(raw, "y") THEN Goto("Write")
             ELSE Finish("Cancelled", "declined")
    /\ UNCHANGED <<input_path, output_path, csv_headers, db_schema, hidx,
                   custom_key, rows, data, fs, fs0>>

\* save_json: open(self.output_path, 'w').
SaveOpen ==
    /\ pc = "Write"
    /\ UNCHANGED <<scanVars, jsonVars>>
    /\ fs' = [fs EXCEPT ![output_path] = Truncated]
    /\ Goto("Writing")
    /\ UNCHANGED <<typed, input_path, output_path, csv_headers, db_schema,
                   hidx, custom_key, rows, data, fs0>>

\* save_json: open raises (a directory, no permission).
SaveOpenFails ==
    /\ pc = "Write"
    /\ UNCHANGED <<scanVars, jsonVars>>
    /\ Except("OSError")
    /\ UNCHANGED <<typed, input_path, output_path, csv_headers, db_schema,
                   hidx, custom_key, rows, data, fs, fs0>>

\* save_json: json.dump to the end, the file closed, the report printed.
SaveDump ==
    /\ pc = "Writing"
    /\ UNCHANGED <<scanVars, jsonVars>>
    /\ fs' = [fs EXCEPT ![output_path] = JsonDump(data)]
    /\ Goto("OpenFile")
    /\ UNCHANGED <<typed, input_path, output_path, csv_headers, db_schema,
                   hidx, custom_key, rows, data, fs0>>

\* save_json: a write raises (the disk is full); the file keeps what was
\* written of it.
SaveDumpFails ==
    /\ pc = "Writing"
    /\ UNCHANGED <<scanVars, jsonVars>>
    /\ Except("OSError")
    /\ UNCHANGED <<typed, input_path, output_path, csv_headers, db_schema,
                   hidx, custom_key, rows, data, fs, fs0>>

\* run(): "Open the output file? (y/n)"; what opening does is swallowed.
AskOpenFile ==
    /\ pc = "OpenFile"
    /\ UNCHANGED <<scanVars, jsonVars>>
    /\ \E raw \in YesNoInputs : typed' = raw
    /\ Finish("Done", "done")
    /\ UNCHANGED <<input_path, output_path, csv_headers, db_schema, hidx,
                   custom_key, rows, data, fs, fs0>>

\* run(): "Show detailed error? (y/n)" of the handler of Exception.
ShowError ==
    /\ pc = "Error"
    /\ UNCHANGED <<scanVars, jsonVars>>
    /\ \E raw \in YesNoInputs : typed' = raw
    /\ Finish("Failed", "error")
    /\ UNCHANGED <<input_path, output_path, csv_headers, db_schema, hidx,
                   custom_key, rows, data, fs, fs0>>

\* Ctrl+C. At a prompt get_user_input prints and exits the process; in any
\* other statement run()'s `except KeyboardInterrupt` prints and returns.
Interrupt ==
    /\ pc \in Prompts \cup Steps
    /\ UNCHANGED <<scanVars, jsonVars>>
    /\ Finish("Cancelled", "interrupted")
    /\ UNCHANGED <<typed, input_path, output_path, csv_headers, db_schema,
                   hidx, custom_key, rows, data, fs, fs0>>

\* The scanner and the validator are separate programs: they stand still
\* while the converter runs.
ScanIdle ==
    /\ text = <<>>
    /\ scan_pc = "idle"
    /\ line_num = 0
    /\ col_num = 0
    /\ in_string = FALSE
    /\ escape_next = FALSE
    /\ string_start_line = 0
    /\ string_start_col = 0
    /\ scan_result = 0

JsonIdle ==
    /\ file_kind = "valid"
    /\ n_lines = 0
    /\ lineno = 0
    /\ json_pc = "idle"
    /\ snippet_i = 0
    /\ json_result = ""

Init == RunInit /\ ScanIdle /\ JsonIdle

Next ==
    \/ GetInputPath
    \/ RetryInputPath
    \/ GetOutputPath
    \/ ReadCsvHeaders
    \/ ReadCsvHeadersFails
    \/ StartMapping
    \/ EnterKey
    \/ EnterType
    \/ RetryType
    \/ ShowSummary
    \/ ConfirmConversion
    \/ ConvertStep
    \/ ConvertReadFails
    \/ PreviewData
    \/ SaveOpen
    \/ SaveOpenFails
    \/ SaveDump
    \/ SaveDumpFails
    \/ AskOpenFile
    \/ ShowError
    \/ Interrupt

Spec == Init /\ [][Next]_vars

-----------------------------------------------------------------------------
(* convert_data alone, on every schema create_key_mapping can build *)

KeyNames == {Strip(k) : k \in KeyInputs} \ {""}

\* The schemas create_key_mapping builds from headers: at most one entry per
\* header, in header order, under pairwise distinct keys.
Schemas(headers) ==
    LET Entries  == [key : KeyNames,
                     csv_column : {headers[i] : i \in 1..Len(headers)},
                     data_type : DataTypes]
        Pos(c)   == CHOOSE i \in 1..Len(headers) : headers[i] = c
    IN  {sch \in SeqUpTo(Entries, Len(headers)) :
            \A i, j \in 1..Len(sch) :
                i < j => /\ sch[i].key # sch[j].key
                         /\ Pos(sch[i].csv_column) < Pos(sch[j].csv_column)}

\* run() about to call convert_data.
ConvertInit ==
    /\ pc = "Convert"
    /\ at = "Convert"
    /\ outcome = ""
    /\ typed = ""
    /\ input_path = "data.csv"
    /\ output_path = "data.json"
    /\ csv_headers \in HeaderRows
    /\ db_schema \in Schemas(csv_headers) \ {<<>>}
    /\ hidx = Len(csv_headers)
    /\ custom_key = None
    /\ rows = <<>>
    /\ data = <<>>
    /\ exc = ""
    /\ fs = [p \in DestPaths |-> Absent]
    /\ fs0 = fs
    /\ ScanIdle
    /\ JsonIdle

ConvertAny == ConvertFile(FilesOver(Cells))

NextConvert ==
    \/ ConvertAny
    \/ ConvertReadFails

SpecConvert == ConvertInit /\ [][NextConvert]_vars

\* The schemas the pipeline converts with are those of ConvertInit.
SchemaReachable ==
    pc = "Convert" => db_schema \in Schemas(csv_headers) \ {<<>>}

-----------------------------------------------------------------------------
(* find_unclosed_string *)

\* The converter stands still while another program runs.
RunIdle ==
    /\ pc = "idle"
    /\ at = "idle"
    /\ outcome = ""
    /\ typed = ""
    /\ input_path = ""
    /\ output_path = ""
    /\ csv_headers = <<>>
    /\ db_schema = <<>>
    /\ hidx = 0
    /\ custom_key = None
    /\ rows = <<>>
    /\ data = <<>>
    /\ exc = ""
    /\ fs = [p \in DestPaths |-> Absent]
    /\ fs0 = fs

Quote     == "\""
Backslash == "\\"
Newline   == "\n"
ScanChars == {Quote, Backslash, Newline, "x"}

\* The lines file iteration yields: each ends with its newline, but for a
\* last line that has none.
RECURSIVE SplitLines(_)
SplitLines(t) ==
    IF t = <<>> THEN <<>>
    ELSE IF \E i \in 1..Len(t) : t[i] = Newline
         THEN LET i == CHOOSE j \in 1..Len(t) :
                          t[j] = Newline /\ \A m \in 1..j-1 : t[m] # Newline
              IN  <<SubSeq(t, 1, i)>> \o SplitLines(SubSeq(t, i + 1, Len(t)))
         ELSE <<t>>

ScanInit ==
    /\ text \in SeqUpTo(ScanChars, MaxLen)
    /\ scan_pc = "start"
    /\ line_num = 0
    /\ col_num = 0
    /\ in_string = FALSE
    /\ escape_next = FALSE
    /\ string_start_line = 0
    /\ string_start_col = 0
    /\ scan_result = 0
    /\ RunIdle
    /\ JsonIdle

\* open(filepath) and the first step of the loops.
ScanOpen ==
    /\ scan_pc = "start"
    /\ IF SplitLines(text) = <<>>
       THEN scan_pc' = "eof" /\ line_num' = line_num /\ col_num' = col_num
       ELSE scan_pc' = "scan" /\ line_num' = 1 /\ col_num' = 1
    /\ UNCHANGED <<text, in_string, escape_next, string_start_line,
                   string_start_col, scan_result>>
    /\ UNCHANGED <<runVars, jsonVars>>

\* open raises: `except Exception` prints and returns None.
ScanOpenFails ==
    /\ scan_pc = "start"
    /\ scan_pc' = "failed"
    /\ scan_result' = 0
    /\ UNCHANGED <<text, line_num, col_num, in_string, escape_next,
                   string_start_line, string_start_col>>
    /\ UNCHANGED <<runVars, jsonVars>>

\* A scanner that takes a backslash for an escape only inside a string.
StartsEscape_InStringOnly(char, inside) == char = Backslash /\ inside

\* `if char == '\\'`: a backslash sets escape_next, inside a string or not.
StartsEscape(char, inside) == char = Backslash

\* The body of the inner loop on the character at line_num, col_num, and the
\* step of the loops to the next character.
ScanChar ==
    /\ scan_pc = "scan"
    /\ LET lines == SplitLines(text)
           char  == lines[line_num][col_num]
       IN  /\ IF escape_next
              THEN /\ escape_next' = FALSE
                   /\ UNCHANGED <<in_string, string_start_line,
                                  string_start_col>>
              ELSE IF StartsEscape(char, in_string)
              THEN /\ escape_next' = TRUE
                   /\ UNCHANGED <<in_string, string_start_line,
                                  string_start_col>>
              ELSE IF char = Quote /\ ~in_string
              THEN /\ in_string' = TRUE
                   /\ string_start_line' = line_num
                   /\ string_start_col' = col_num
                   /\ UNCHANGED escape_next
              ELSE IF char = Quote /\ in_string
              THEN /\ in_string' = FALSE
                   /\ UNCHANGED <<escape_next, string_start_line,
                                  string_start_col>>
              ELSE UNCHANGED <<in_string, escape_next, string_start_line,
                               string_start_col>>
           /\ IF col_num < Len(lines[line_num])
              THEN scan_pc' = "scan" /\ line_num' = line_num
                   /\ col_num' = col_num + 1
              ELSE IF line_num < Len(lines)
              THEN scan_pc' = "scan" /\ line_num' = line_num + 1
                   /\ col_num' = 1
              ELSE scan_pc' = "eof" /\ line_num' = line_num
                   /\ col_num' = col_num
    /\ UNCHANGED <<text, scan_result>>
    /\ UNCHANGED <<runVars, jsonVars>>

\* After the loops: `if in_string: ... return string_start_line`, else None.
ScanReturn ==
    /\ scan_pc = "eof"
    /\ scan_pc' = "returned"
    /\ scan_result' = IF in_string THEN string_start_line ELSE 0
    /\ UNCHANGED <<text, line_num, col_num, in_string, escape_next,
                   string_start_line, string_start_col>>
    /\ UNCHANGED <<runVars, jsonVars>>

NextScan ==
    \/ ScanOpen
    \/ ScanOpenFails
    \/ ScanChar
    \/ ScanReturn

SpecScan == ScanInit /\ [][NextScan]_vars

\* The length of the run of backslashes that ends just before position i.
BackslashRun(t, i) ==
    LET R == {k \in 0..i-1 : \A m \in i-k..i-1 : t[m] = Backslash}
    IN  CHOOSE k \in R : \A m \in R : m <= k

\* The positions of the quotes no active backslash precedes.
LiveQuotes(t) ==
    {i \in 1..Len(t) : t[i] = Quote /\ BackslashRun(t, i) % 2 = 0}

LineOf(t, i) == 1 + Cardinality({m \in 1..i-1 : t[m] = Newline})
ColOf(t, i)  ==
    LET N == {m \in 1..i-1 : t[m] = Newline}
    IN  IF N = {} THEN i ELSE i - (CHOOSE m \in N : \A k \in N : k <= m)

\* C9: the scan of a file returns a line exactly when the number of quotes
\* that no active backslash precedes is odd, and the line and column it
\* reports are those of the last such quote; a backslash is active when the
\* run of backslashes it ends has odd length, in a string or not, across
\* line ends.
C9_UnclosedIffOddQuotes ==
    scan_pc = "returned" =>
        LET Q == LiveQuotes(text)
        IN  IF Cardinality(Q) % 2 = 1
            THEN LET q == CHOOSE i \in Q : \A m \in Q : m <= i
                 IN  /\ scan_result = LineOf(text, q)
                     /\ scan_result # 0
                     /\ string_start_line = LineOf(text, q)
                     /\ string_start_col = ColOf(text, q)
            ELSE scan_result = 0

C9_Witness ==
    /\ scan_pc = "returned"
    /\ text = <<Backslash, Quote, Backslash, Newline, Quote>>
    /\ scan_result = 2
    /\ string_start_col = 1

-----------------------------------------------------------------------------
(* validate_json_file *)

\* What is at filepath: nothing; a file removed after its size was taken; a
\* directory; a file that may not be read, is not UTF-8, is too large for
\* memory, is no JSON document, or is one.
FileKinds == {"missing", "removed", "directory", "denied", "undecodable",
              "huge", "syntax", "valid"}

JsonInit ==
    /\ file_kind \in FileKinds
    /\ n_lines \in 0..MaxJsonLines
    /\ lineno \in IF file_kind = "syntax" THEN 1..(n_lines + 1) ELSE {0}
    /\ json_pc = "start"
    /\ snippet_i = 0
    /\ json_result = ""
    /\ RunIdle
    /\ ScanIdle

JsonReturn(v) == json_pc' = "returned" /\ json_result' = v
JsonRaise(e)  == json_pc' = "raised" /\ json_result' = e

\* The two prints before the try: os.path.getsize(filepath).
ValidateStart ==
    /\ json_pc = "start"
    /\ IF file_kind = "missing" THEN JsonRaise("FileNotFoundError")
       ELSE json_pc' = "open" /\ json_result' = json_result
    /\ UNCHANGED <<file_kind, n_lines, lineno, snippet_i>>
    /\ UNCHANGED <<runVars, scanVars>>

\* open(filepath, 'r', encoding='utf-8') in the try.
ValidateOpen ==
    /\ json_pc = "open"
    /\ IF file_kind \in {"removed", "directory", "denied"}
       THEN JsonReturn("False")
       ELSE json_pc' = "load" /\ json_result' = json_result
    /\ UNCHANGED <<file_kind, n_lines, lineno, snippet_i>>
    /\ UNCHANGED <<runVars, scanVars>>

\* json.load(f) and the handlers of what it raises.
ValidateLoad ==
    /\ json_pc = "load"
    /\ CASE file_kind = "valid" ->
               JsonReturn("True") /\ snippet_i' = snippet_i
         [] file_kind = "syntax" ->
               /\ json_pc' = "snippet"
               /\ json_result' = json_result
               /\ snippet_i' = IF lineno - 3 > 0 THEN lineno - 3 ELSE 0
         [] OTHER ->
               JsonReturn("False") /\ snippet_i' = snippet_i
    /\ UNCHANGED <<file_kind, n_lines, lineno>>
    /\ UNCHANGED <<runVars, scanVars>>

\* end_line = min(len(lines), e.lineno + 2)
EndLine == IF n_lines < lineno + 2 THEN n_lines ELSE lineno + 2

\* One round of `for i in range(start_line, end_line)`: lines[i] is printed,
\* an IndexError would reach `except Exception`.
SnippetLine ==
    /\ json_pc = "snippet"
    /\ snippet_i < EndLine
    /\ IF snippet_i < n_lines
       THEN /\ snippet_i' = snippet_i + 1
            /\ UNCHANGED <<json_pc, json_result>>
       ELSE JsonReturn("False") /\ snippet_i' = snippet_i
    /\ UNCHANGED <<file_kind, n_lines, lineno>>
    /\ UNCHANGED <<runVars, scanVars>>

\* The loop is over: return False.
SnippetEnd ==
    /\ json_pc = "snippet"
    /\ snippet_i >= EndLine
    /\ JsonReturn("False")
    /\ UNCHANGED <<file_kind, n_lines, lineno, snippet_i>>
    /\ UNCHANGED <<runVars, scanVars>>

NextJson ==
    \/ ValidateStart
    \/ ValidateOpen
    \/ ValidateLoad
    \/ SnippetLine
    \/ SnippetEnd

SpecJson == JsonInit /\ [][NextJson]_vars

\* C10: the call returns True for a JSON document and False in every other
\* case; it never raises.
C10_ReturnsNeverRaises ==
    json_pc \in {"returned", "raised"} =>
        /\ json_pc = "returned"
        /\ json_result = IF file_kind = "valid" THEN "True" ELSE "False"

-----------------------------------------------------------------------------
(* Claims on convert_data (SpecConvert) *)

\* The value a record holds under key.
ValueOf(record, key) ==
    record[CHOOSE k \in 1..Len(record) : record[k].key = key].val

\* The index in lines of the i-th line that is not blank.
NthNonBlank(lines, i) ==
    CHOOSE j \in 1..Len(lines) :
        /\ lines[j] # <<>>
        /\ Cardinality({m \in 1..j : lines[m] # <<>>}) = i

NonBlankCount(lines) == Cardinality({j \in 1..Len(lines) : lines[j] # <<>>})

\* The raw cell of the source column of entry e in line: None when the line
\* is too short for the column.
SourceCell(line, e) ==
    LET c == CHOOSE j \in 1..Len(csv_headers) : csv_headers[j] = e.csv_column
    IN  IF c <= Len(line) THEN line[c] ELSE None

\* C2: no cell aborts the conversion: convert_data ends in an exception only
\* when reading the file fails, never because convert_value raised.
C2_NoCellAborts ==
    pc = "Error" => exc \in ConvertErrors

\* C3 (as claimed): a missing or empty source cell is stored as null under a
\* string, integer or float entry and as false under a boolean entry.
C3_EmptyBooleanIsFalse ==
    pc = "Preview" =>
        \A i \in 1..Len(data), k \in 1..Len(db_schema) :
            LET e    == db_schema[k]
                cell == SourceCell(rows[NthNonBlank(rows, i)], e)
            IN  cell \in {None, ""} =>
                    ValueOf(data[i], e.key) =
                        IF e.data_type = "boolean" THEN Bool(FALSE) ELSE Null

\* C3 (amended): a missing or empty source cell is stored as null under
\* every entry, a boolean one included.
C3_EmptyIsNull ==
    pc = "Preview" =>
        \A i \in 1..Len(data), k \in 1..Len(db_schema) :
            LET e    == db_schema[k]
                cell == SourceCell(rows[NthNonBlank(rows, i)], e)
            IN  cell \in {None, ""} => ValueOf(data[i], e.key) = Null

C3_Witness ==
    /\ pc = "Preview"
    /\ \E i \in 1..Len(data), k \in 1..Len(db_schema) :
          /\ db_schema[k].data_type = "boolean"
          /\ SourceCell(rows[NthNonBlank(rows, i)], db_schema[k]) = None
          /\ ValueOf(data[i], db_schema[k].key) = Null

-----------------------------------------------------------------------------
(* Claims on run() (Spec) *)

\* C1: until save_json has opened the destination, the filesystem is what it
\* was when the run began, however the run ends.
C1_UntouchedBeforeWrite ==
    at \notin {"Writing", "OpenFile"} => fs = fs0

C1_Witness ==
    /\ pc = "Cancelled"
    /\ outcome = "declined"
    /\ at = "Preview"
    /\ fs0[output_path] = OldFile
    /\ fs[output_path] = OldFile

\* C4: an empty line at the data type prompt skips the column: no entry is
\* made and the builder leaves the prompt for the next header.
C4_BlankTypeSkips ==
    [][(pc = "TypePrompt" /\ outcome' # "interrupted" /\ Strip(typed') = "")
          => (db_schema' = db_schema /\ pc' \notin {"TypePrompt", "TypeRetry"})]_vars

\* C5: in create_key_mapping the keys of db_schema are pairwise distinct, an
\* entry once made never changes, and a key already in use is rejected:
\* db_schema stays as it is and the same column is asked again.
C5_KeysDistinctAndStable ==
    [][/\ \A i, j \in 1..Len(db_schema') :
             i # j => db_schema'[i].key # db_schema'[j].key
       /\ Len(db_schema) <= Len(db_schema')
       /\ \A i \in 1..Len(db_schema) : db_schema'[i] = db_schema[i]
       /\ (/\ pc = "KeyPrompt"
           /\ outcome' # "interrupted"
           /\ \E i \in 1..Len(db_schema) : db_schema[i].key = Strip(typed'))
          => (db_schema' = db_schema /\ pc' = "KeyPrompt" /\ hidx' = hidx)
      ]_vars

C5_Witness ==
    /\ pc = "KeyPrompt"
    /\ hidx = 2
    /\ typed = "k1"
    /\ Len(db_schema) = 1
    /\ db_schema[1] = [key |-> "k1", csv_column |-> "a", data_type |-> "integer"]

\* C7: when the run has ended, each destination holds what it held when the
\* run began or the whole serialized record set.
C7_NeverHalfWritten ==
    pc \in Terminal =>
        \A p \in DestPaths : fs[p] = fs0[p] \/ fs[p] = JsonDump(data)

\* The pipeline step a position of run() belongs to, and the order of the
\* steps.
StepOf(p) ==
    CASE p \in {"CollectPaths", "RetryPath", "OutputPath"}              -> 1
      [] p = "ReadHeaders"                                              -> 2
      [] p \in {"BuildMapping", "KeyPrompt", "TypePrompt", "TypeRetry"} -> 3
      [] p = "Summarize"                                                -> 4
      [] p = "ConfirmConversion"                                        -> 5
      [] p = "Convert"                                                  -> 6
      [] p = "Preview"                                                  -> 7
      [] p \in {"Write", "Writing", "OpenFile"}                         -> 8
      [] OTHER                                                          -> 9

=============================================================================
